---- MODULE Spec2Model ----
(***************************************************************************)
(* A model of iocage-provision: the privilege check and provisioning       *)
(* workflow of src/lib.rs (ensure_root, provision_jail and its helpers)    *)
(* and the process runner spawn_and_indent_with_stdin, with the child      *)
(* process, its three pipes and the two output-draining threads as         *)
(* concurrent processes.                                                   *)
(***************************************************************************)
EXTENDS Integers, Sequences, FiniteSets, TLC

(***************************************************************************)
(* Bounds of the model.                                                    *)
(***************************************************************************)
\* most lines a child writes to one output stream
MaxLines == 2
\* lines an output pipe buffers before the child's write blocks
PipeCap == 1
\* payload chunks the stdin pipe buffers before the parent's write blocks
StdinCap == 1

(***************************************************************************)
(* Values.                                                                 *)
(***************************************************************************)
\* Option::None of a name (a string), and of a resolved user or group (a record)
None == "None"
NoneRec == [none |-> TRUE]

\* The host's passwd database (users::get_user_by_name); a login shell is a
\* path, given as its sequence of components.
Passwd ==
    [ jdoe |-> [name |-> "jdoe", uid |-> 1001, gid |-> 1001,
                shell |-> <<"usr", "local", "bin", "bash">>],
      ops  |-> [name |-> "ops", uid |-> 1002, gid |-> 1002,
                shell |-> <<"bin", "sh">>],
      svc  |-> [name |-> "svc", uid |-> 1003, gid |-> 1003,
                shell |-> <<>>] ]

\* The host's group database (users::get_group_by_gid); the primary groups
\* of ops and svc have no entry.
GroupDb ==
    [g \in {0, 1001} |-> [gid |-> g, name |-> IF g = 0 THEN "wheel" ELSE "jdoe"]]

\* User names a caller may pass with --user; "ghost" is not in Passwd.
UserArgs == {None, "jdoe", "ops", "svc", "ghost"}

\* Suffixes tempfile may draw for the package-list file (rand_bytes(5)).
RandSuffixes == {"aaaaa", "bbbbb"}

\* ExitStatus of a child: exited with a code, or killed by a signal (no code).
Exited(c) == [exited |-> TRUE, code |-> c]
Signaled == [exited |-> FALSE]
ExitCodes == {0, 1}
ExitStatuses == {Exited(c) : c \in ExitCodes} \cup {Signaled}

\* The workflow's steps, in the order provision_jail lists them.
StepOrder == <<"create", "sudo", "group", "user", "ssh">>

Last(s) == s[Len(s)]

(***************************************************************************)
(* Errors: a record [kind, ...]; Ok values are records too.                *)
(***************************************************************************)
NoResult == [kind |-> "none"]
OkUnit == [kind |-> "Ok"]

\* CmdError, lib.rs 83-97
CmdSpawn(program, err) == [kind |-> "Spawn", program |-> program, err |-> err]
CmdStreamCapture(stream) == [kind |-> "StreamCapture", stream |-> stream]
CmdThread(stream) == [kind |-> "Thread", stream |-> stream]
CmdStdinWrite == [kind |-> "StdinWrite"]
CmdChildWait == [kind |-> "ChildWait"]
CmdFailed(code) == [kind |-> "Failed", code |-> code]

\* Result<ExitStatus, CmdError> of the runner
RunOk(st) == [kind |-> "Ok", status |-> st]
RunErr(e) == [kind |-> "Err", err |-> e]

(***************************************************************************)
(* Pure helpers of lib.rs.                                                 *)
(***************************************************************************)
\* ensure_root letting every uid through
ensure_root_anyone(uid) == OkUnit

\* ensure_root: Err(NotRoot) unless the effective uid is 0
ensure_root(uid) == IF uid # 0 THEN [kind |-> "NotRoot"] ELSE OkUnit

\* find_user with a name that is not found treated as no name
find_user_lenient(user_str) ==
    IF user_str \in DOMAIN Passwd
    THEN [kind |-> "Ok", user |-> Passwd[user_str]]
    ELSE [kind |-> "Ok", user |-> NoneRec]

\* find_user: Ok(None) for no name, Ok(Some(user)) for a name in the passwd
\* database, Err(NoUser(name)) otherwise
find_user(user_str) ==
    IF user_str = None THEN [kind |-> "Ok", user |-> NoneRec]
    ELSE IF user_str \in DOMAIN Passwd
         THEN [kind |-> "Ok", user |-> Passwd[user_str]]
         ELSE [kind |-> "NoUser", user |-> user_str]

\* find_group falling back on the group of gid 0 for a gid without group
find_group_fallback(gid) ==
    IF gid \in DOMAIN GroupDb
    THEN [kind |-> "Ok", group |-> GroupDb[gid]]
    ELSE [kind |-> "Ok", group |-> GroupDb[0]]

\* find_group: the group of a gid, or Err(NoGid(gid))
find_group(gid) ==
    IF gid \in DOMAIN GroupDb
    THEN [kind |-> "Ok", group |-> GroupDb[gid]]
    ELSE [kind |-> "NoGid", gid |-> gid]

\* Path::file_name: the last component, None for an empty path or one that
\* ends in ".."
file_name(path) ==
    IF path = <<>> \/ Last(path) = ".." THEN None ELSE Last(path)

\* Path::display of an absolute path given as components
RECURSIVE display(_)
display(path) ==
    IF path = <<>> THEN "" ELSE "/" \o Head(path) \o display(Tail(path))

\* the package list with sudo in it whether or not a user was given
pkglist_json_str_sudo_always(usr) ==
    IF usr # NoneRec /\ file_name(usr.shell) = "bash"
    THEN "{\"pkgs\":[\"sudo\",\"bash\"]}"
    ELSE "{\"pkgs\":[\"sudo\"]}"

\* the JSON text create_pkglist_json writes, lib.rs 257-271
pkglist_json_str(usr) ==
    IF usr # NoneRec
    THEN LET fname == file_name(usr.shell)
             shell == IF fname = None THEN "" ELSE fname
         IN  IF shell = "bash" THEN "{\"pkgs\":[\"sudo\",\"bash\"]}"
                               ELSE "{\"pkgs\":[\"sudo\"]}"
    ELSE "{\"pkgs\":[]}"

\* the path tempfile::Builder gives the package list, lib.rs 273-277
pkglist_path(rand) == "/tmp/pkglist" \o rand \o ".json"

\* success taken to mean "the child exited", whatever its code
success_any_code(st) == st.exited

\* the exit code forgotten: -1 whatever the status
code_or_lost(st) == -1

\* ExitStatus::success and ExitStatus::code().unwrap_or(-1)
success(st) == st.exited /\ st.code = 0
code_or(st) == IF st.exited THEN st.code ELSE -1

\* the sudo-config script with a second command chained by a semicolon
exec_sudo_config_src_chained ==
    "mkdir -p /usr/local/etc/sudoers.d; echo '%wheel ALL=(ALL) NOPASSWD: ALL' >/usr/local/etc/sudoers.d/wheel"

\* the scripts of the exec-in-jail steps, lib.rs 288-343
exec_sudo_config_src ==
    "echo '%wheel ALL=(ALL) NOPASSWD: ALL' >/usr/local/etc/sudoers.d/wheel"
exec_create_group_src(grp) ==
    "pw groupadd -n '" \o grp.name \o "' -g '" \o ToString(grp.gid) \o "'"
exec_create_user_src(usr, grp) ==
    "pw useradd -n '" \o usr.name \o "' -u '" \o ToString(usr.uid)
        \o "' -g '" \o grp.name \o "' -G wheel -m -s '" \o display(usr.shell) \o "'"
exec_ssh_service_src ==
    "sysrc -f /etc/rc.conf sshd_enable=\"YES\" && service sshd start"

ExecSrc(step, usr, grp) ==
    CASE step = "sudo"  -> exec_sudo_config_src
      [] step = "group" -> exec_create_group_src(grp)
      [] step = "user"  -> exec_create_user_src(usr, grp)
      [] step = "ssh"   -> exec_ssh_service_src

\* the Command of run_iocage_create with --thickjail added after boot=on
run_iocage_create_cmd_thick_last(a, pkglist) ==
    [ step    |-> "create",
      program |-> "iocage",
      args    |-> <<"--force", "create", "--name", a.name, "--release", a.release,
                    "--pkglist", pkglist>>
                  \o <<"vnet=on", "ip4_addr=vnet0|" \o a.ip,
                       "defaultrouter=" \o a.gateway, "resolver=none", "boot=on">>
                  \o (IF a.thick_jail THEN <<"--thickjail">> ELSE <<>>),
      env     |-> <<"PYTHONUNBUFFERED", "true">>,
      stdin   |-> <<>> ]

\* the Command of run_iocage_create, lib.rs 358-375; it has no stdin payload
\* (spawn_and_indent passes |_| Ok(()))
run_iocage_create_cmd(a, pkglist) ==
    [ step    |-> "create",
      program |-> "iocage",
      args    |-> <<"--force", "create", "--name", a.name, "--release", a.release,
                    "--pkglist", pkglist>>
                  \o (IF a.thick_jail THEN <<"--thickjail">> ELSE <<>>)
                  \o <<"vnet=on", "ip4_addr=vnet0|" \o a.ip,
                       "defaultrouter=" \o a.gateway, "resolver=none", "boot=on">>,
      env     |-> <<"PYTHONUNBUFFERED", "true">>,
      stdin   |-> <<>> ]

\* the Command of iocage_exec with a closure that writes the script only
iocage_exec_cmd_no_prefix(step, jail_name, src) ==
    [ step    |-> step,
      program |-> "iocage",
      args    |-> <<"exec", jail_name, "sh">>,
      env     |-> <<"PYTHONUNBUFFERED", "true">>,
      stdin   |-> <<src>> ]

\* the Command of iocage_exec and the two chunks its closure writes,
\* lib.rs 398-417
iocage_exec_cmd(step, jail_name, src) ==
    [ step    |-> step,
      program |-> "iocage",
      args    |-> <<"exec", jail_name, "sh">>,
      env     |-> <<"PYTHONUNBUFFERED", "true">>,
      stdin   |-> <<"set -eu\n\n", src>> ]

\* the Error variant that wraps a failure of a step, lib.rs 293, 310, 329,
\* 342, 377-384
StepErrorKind(step) ==
    CASE step = "create" -> "IocageCreate"
      [] step = "sudo"   -> "ExecSudoConfig"
      [] step = "group"  -> "ExecCreateGroup"
      [] step = "user"   -> "ExecCreateUser"
      [] step = "ssh"    -> "ExecSshService"

StepError(step, e) == [kind |-> StepErrorKind(step), source |-> e]

\* StepResult without the check of the exit status
StepResult_ignore_status(step, v) ==
    IF v.kind = "Err" THEN StepError(step, v.err) ELSE OkUnit

\* StepResult with the runner's error swallowed instead of propagated
StepResult_swallow(step, v) ==
    IF v.kind = "Err" THEN OkUnit
    ELSE IF success(v.status) THEN OkUnit
    ELSE StepError(step, CmdFailed(code_or(v.status)))

\* StepResult with the error kind of the create step for every step
StepResult_one_kind(step, v) ==
    IF v.kind = "Err" THEN StepError("create", v.err)
    ELSE IF success(v.status) THEN OkUnit
    ELSE StepError("create", CmdFailed(code_or(v.status)))

\* what run_iocage_create and iocage_exec make of the runner's verdict,
\* lib.rs 377-385 and 417-423
StepResult(step, v) ==
    IF v.kind = "Err" THEN StepError(step, v.err)
    ELSE IF success(v.status) THEN OkUnit
    ELSE StepError(step, CmdFailed(code_or(v.status)))

\* provision_jail with the user created before its group
provision_jail_next_swapped(at, usr, ssh_service) ==
    CASE at = "create"     -> IF usr # NoneRec THEN "find_group"
                              ELSE IF ssh_service THEN "ssh" ELSE "finish"
      [] at = "find_group" -> "sudo"
      [] at = "sudo"       -> "user"
      [] at = "user"       -> "group"
      [] at = "group"      -> IF ssh_service THEN "ssh" ELSE "finish"
      [] at = "ssh"        -> "finish"

\* provision_jail with the SSH block entered whatever ssh_service says
provision_jail_next_always_ssh(at, usr, ssh_service) ==
    CASE at = "create"     -> IF usr # NoneRec THEN "find_group" ELSE "ssh"
      [] at = "find_group" -> "sudo"
      [] at = "sudo"       -> "group"
      [] at = "group"      -> "user"
      [] at = "user"       -> "ssh"
      [] at = "ssh"        -> "finish"

\* provision_jail with the SSH block placed before the user block
provision_jail_next_ssh_first(at, usr, ssh_service) ==
    CASE at = "create"     -> IF ssh_service THEN "ssh"
                              ELSE IF usr # NoneRec THEN "find_group" ELSE "finish"
      [] at = "ssh"        -> IF usr # NoneRec THEN "find_group" ELSE "finish"
      [] at = "find_group" -> "sudo"
      [] at = "sudo"       -> "group"
      [] at = "group"      -> "user"
      [] at = "user"       -> "finish"

\* the sequencing of provision_jail, lib.rs 156-178: the position after
\* position `at` has completed without error
provision_jail_next(at, usr, ssh_service) ==
    CASE at = "create"     -> IF usr # NoneRec THEN "find_group"
                              ELSE IF ssh_service THEN "ssh" ELSE "finish"
      [] at = "find_group" -> "sudo"
      [] at = "sudo"       -> "group"
      [] at = "group"      -> "user"
      [] at = "user"       -> IF ssh_service THEN "ssh" ELSE "finish"
      [] at = "ssh"        -> "finish"

(***************************************************************************)
(* State.                                                                  *)
(***************************************************************************)
VARIABLES
    euid,       \* the effective uid of the process
    args,       \* the parsed command line (cli.rs Args)
    pc,         \* position of the main thread in main / provision_jail
    user,       \* provision_jail's `user`: the resolved User or NoneRec
    group,      \* provision_jail's `group`: the resolved Group or NoneRec
    json,       \* provision_jail's `json`: the NamedTempFile's path, or None
    tmpfs,      \* the temporary files that exist: a set of [path, content]
    trace,      \* the Commands handed to the runner so far, in order
    done,       \* the steps whose call has returned: [step, verdict, result]
    result,     \* what main got from ensure_root()? / provision_jail()?
    step,       \* the step whose runner call is in progress, or None
    rpc,        \* position of the main thread in spawn_and_indent_with_stdin
    stdinTodo,  \* the chunks the stdin closure has still to write
    status,     \* the local `status`: the result of child.wait()
    verdict,    \* the value the runner call returned
    child,      \* the child process of the runner call
    stdinPipe,  \* chunks buffered in the child's stdin pipe
    stdinW,     \* the parent holds the write end of the stdin pipe
    outPipe,    \* lines buffered in the stdout pipe
    outR,       \* the read end of the stdout pipe is open
    errPipe,    \* lines buffered in the stderr pipe
    errR,       \* the read end of the stderr pipe is open
    outT,       \* the stdout thread: none, running, finished, panicked
    errT,       \* the stderr thread
    joined,     \* the threads of this call join() has returned for
    sinkOut,    \* the lines output! has printed during this call
    sinkErr,    \* the lines eoutput! has printed during this call
    live,       \* the number of child processes spawned and not yet exited
    prev        \* the previous run of the program with this command line:
                \* [ran, trace, result], of use where the program is run twice

mainVars == <<euid, args, pc, user, group, json, tmpfs, trace, done, result, step,
              prev>>
runVars == <<rpc, stdinTodo, status, verdict, joined>>
childVars == <<child, live>>
pipeVars == <<stdinPipe, stdinW, outPipe, outR, errPipe, errR>>
threadVars == <<outT, errT, sinkOut, sinkErr>>
vars == <<mainVars, runVars, childVars, pipeVars, threadVars>>

\* no child yet; `in` is the child's view of its stdin: open, eof (it has read
\* end of input) or closed (it has closed the descriptor)
NoChild == [state |-> "none", blocked |-> "none", nOut |-> 0, nErr |-> 0,
            nIn |-> 0, in |-> "open", exit |-> Signaled]

\* the command lines the model draws from
ArgsSet ==
    [ name : {"ferris"}, ip : {"192.168.0.100/24"}, gateway : {"192.168.0.1"},
      release : {"13.1-RELEASE"}, thick_jail : BOOLEAN, user : UserArgs,
      ssh : BOOLEAN ]

Init ==
    /\ euid \in {0, 1001}
    /\ args \in ArgsSet
    /\ pc = "ensure_root"
    /\ user = NoneRec
    /\ group = NoneRec
    /\ json = None
    /\ tmpfs = {}
    /\ trace = <<>>
    /\ done = <<>>
    /\ result = NoResult
    /\ step = None
    /\ rpc = "idle"
    /\ stdinTodo = <<>>
    /\ status = NoResult
    /\ verdict = NoResult
    /\ joined = {}
    /\ child = NoChild
    /\ live = 0
    /\ stdinPipe = <<>>
    /\ stdinW = FALSE
    /\ outPipe = <<>>
    /\ outR = FALSE
    /\ errPipe = <<>>
    /\ errR = FALSE
    /\ outT = "none"
    /\ errT = "none"
    /\ sinkOut = <<>>
    /\ sinkErr = <<>>
    /\ prev = [ran |-> FALSE, trace |-> <<>>, result |-> NoResult]

(***************************************************************************)
(* The main thread: main and provision_jail.                               *)
(***************************************************************************)
\* the NamedTempFile persisted instead of removed when it is dropped
DropJson_kept == /\ json' = None
                 /\ tmpfs' = tmpfs

\* Drop of the NamedTempFile `json`: the file is removed
DropJson == /\ json' = None
            /\ tmpfs' = {f \in tmpfs : f.path # json}

\* provision_jail returns r (by `?` or at its end): its locals are dropped
\* and main returns with r
Return(r) == /\ result' = r
             /\ pc' = "exit"
             /\ DropJson

\* main.rs 17: iocage_provision::ensure_root()?
Main_ensure_root ==
    /\ pc = "ensure_root"
    /\ LET r == ensure_root(euid)
       IN  IF r.kind = "Ok"
           THEN pc' = "find_user" /\ result' = result
           ELSE pc' = "exit" /\ result' = r
    /\ UNCHANGED <<euid, args, prev, user, group, json, tmpfs, trace, done, step>>
    /\ UNCHANGED <<runVars, childVars, pipeVars, threadVars>>

\* lib.rs 150: let user = find_user(user)?
PJ_find_user ==
    /\ pc = "find_user"
    /\ LET r == find_user(args.user)
       IN  IF r.kind = "Ok"
           THEN /\ user' = r.user
                /\ pc' = "pkglist"
                /\ UNCHANGED <<result, json, tmpfs>>
           ELSE /\ Return(r)
                /\ user' = user
    /\ UNCHANGED <<euid, args, prev, group, trace, done, step>>
    /\ UNCHANGED <<runVars, childVars, pipeVars, threadVars>>

\* rand_bytes(5), lib.rs 276: the random part of the file's name.  One name
\* is as good as another, so the first run of the program is given the first
\* of them; a run that follows it may be given the same name or another.
rand_bytes == IF prev.ran THEN RandSuffixes ELSE {"aaaaa"}
\* create_pkglist_json leaving the file behind when fs::write fails
PJ_create_pkglist_json_leak ==
    /\ pc = "pkglist"
    /\ \/ \E rand \in rand_bytes :
            /\ json' = pkglist_path(rand)
            /\ tmpfs' = tmpfs \cup {[path |-> pkglist_path(rand),
                                     content |-> pkglist_json_str(user)]}
            /\ pc' = "create"
            /\ result' = result
       \/ Return([kind |-> "CreatePkglistJson"])
       \/ \E rand \in rand_bytes :
            LET made == tmpfs \cup {[path |-> pkglist_path(rand), content |-> ""]}
            IN  /\ result' = [kind |-> "CreatePkglistJson"]
                /\ pc' = "exit"
                /\ json' = None
                /\ tmpfs' = made
    /\ UNCHANGED <<euid, args, prev, user, group, trace, done, step>>
    /\ UNCHANGED <<runVars, childVars, pipeVars, threadVars>>

\* lib.rs 151 and 256-281: create_pkglist_json(user.as_ref())
\*     .map_err(Error::CreatePkglistJson)?
\* The file is made and written; or tempfile() fails and there is no file;
\* or fs::write fails and the `?` of lib.rs 278 drops the NamedTempFile,
\* which removes the file tempfile() made.
PJ_create_pkglist_json ==
    /\ pc = "pkglist"
    /\ \/ \E rand \in rand_bytes :
            /\ json' = pkglist_path(rand)
            /\ tmpfs' = tmpfs \cup {[path |-> pkglist_path(rand),
                                     content |-> pkglist_json_str(user)]}
            /\ pc' = "create"
            /\ result' = result
       \/ Return([kind |-> "CreatePkglistJson"])
       \/ \E rand \in rand_bytes :
            LET made == tmpfs \cup {[path |-> pkglist_path(rand), content |-> ""]}
            IN  /\ result' = [kind |-> "CreatePkglistJson"]
                /\ pc' = "exit"
                /\ json' = None
                /\ tmpfs' = {f \in made : f.path # pkglist_path(rand)}
    /\ UNCHANGED <<euid, args, prev, user, group, trace, done, step>>
    /\ UNCHANGED <<runVars, childVars, pipeVars, threadVars>>

\* spawn_and_indent_with_stdin is entered with Command cmd for step s
CallRunner(s, cmd) ==
    /\ rpc = "idle"
    /\ trace' = Append(trace, cmd)
    /\ step' = s
    /\ rpc' = "spawn"
    /\ stdinTodo' = cmd.stdin
    /\ UNCHANGED <<euid, args, prev, pc, user, group, json, tmpfs, done, result>>
    /\ UNCHANGED <<status, verdict, joined>>
    /\ UNCHANGED <<childVars, pipeVars, threadVars>>

\* lib.rs 156 and 358-377: run_iocage_create builds its Command and calls
\* spawn_and_indent
PJ_run_iocage_create ==
    /\ pc = "create"
    /\ CallRunner("create", run_iocage_create_cmd(args, json))

\* lib.rs 159: let group = find_group(user.primary_group_id())?
PJ_find_group ==
    /\ pc = "find_group"
    /\ LET r == find_group(user.gid)
       IN  IF r.kind = "Ok"
           THEN /\ group' = r.group
                /\ pc' = provision_jail_next("find_group", user, args.ssh)
                /\ UNCHANGED <<result, json, tmpfs>>
           ELSE /\ Return(r)
                /\ group' = group
    /\ UNCHANGED <<euid, args, prev, user, trace, done, step>>
    /\ UNCHANGED <<runVars, childVars, pipeVars, threadVars>>

\* lib.rs 162, 165, 168, 173 and 397-417: exec_sudo_config,
\* exec_create_group, exec_create_user and exec_ssh_service hand their
\* script to iocage_exec, which calls spawn_and_indent_with_stdin
PJ_iocage_exec(s) ==
    /\ pc = s
    /\ CallRunner(s, iocage_exec_cmd(s, args.name, ExecSrc(s, user, group)))

\* The runner call is over: its locals are gone, and so is what they held of
\* a child that has exited and of threads that have ended. A child that
\* still runs and a thread that was never joined stay as they are.
RunnerLocalsDropped ==
    /\ stdinTodo' = <<>>
    /\ status' = NoResult
    /\ verdict' = NoResult
    /\ joined' = {}
    /\ IF child.state = "running" \/ outT = "running" \/ errT = "running"
       THEN UNCHANGED <<child, pipeVars, threadVars>>
       ELSE /\ child' = NoChild
            /\ stdinPipe' = <<>> /\ outPipe' = <<>> /\ errPipe' = <<>>
            /\ stdinW' = FALSE /\ outR' = FALSE /\ errR' = FALSE
            /\ outT' = "none" /\ errT' = "none"
            /\ sinkOut' = <<>> /\ sinkErr' = <<>>

\* provision_jail running a failed step again instead of returning its error
PJ_step_return_retry ==
    /\ rpc = "ret"
    /\ step # None
    /\ LET r == StepResult(step, verdict)
       IN  /\ done' = Append(done, [step |-> step, verdict |-> verdict,
                                     result |-> r])
           /\ pc' = IF r.kind = "Ok"
                    THEN provision_jail_next(step, user, args.ssh)
                    ELSE step
           /\ UNCHANGED <<result, json, tmpfs>>
    /\ rpc' = "idle"
    /\ step' = None
    /\ RunnerLocalsDropped
    /\ UNCHANGED <<euid, args, prev, user, group, trace, live>>

\* provision_jail dropping `json` as soon as run_iocage_create has returned
PJ_step_return_json_scoped ==
    /\ rpc = "ret"
    /\ step # None
    /\ LET r == StepResult(step, verdict)
       IN  /\ done' = Append(done, [step |-> step, verdict |-> verdict,
                                     result |-> r])
           /\ IF r.kind = "Ok"
              THEN /\ pc' = provision_jail_next(step, user, args.ssh)
                   /\ result' = result
                   /\ IF step = "create" THEN DropJson
                                         ELSE UNCHANGED <<json, tmpfs>>
              ELSE Return(r)
    /\ rpc' = "idle"
    /\ step' = None
    /\ RunnerLocalsDropped
    /\ UNCHANGED <<euid, args, prev, user, group, trace, live>>

\* lib.rs 377-385 and 417-423, then the `?` of lib.rs 156-173: the runner
\* call of the step has returned
PJ_step_return ==
    /\ rpc = "ret"
    /\ step # None
    /\ LET r == StepResult(step, verdict)
       IN  /\ done' = Append(done, [step |-> step, verdict |-> verdict,
                                     result |-> r])
           /\ IF r.kind = "Ok"
              THEN /\ pc' = provision_jail_next(step, user, args.ssh)
                   /\ UNCHANGED <<result, json, tmpfs>>
              ELSE Return(r)
    /\ rpc' = "idle"
    /\ step' = None
    /\ RunnerLocalsDropped
    /\ UNCHANGED <<euid, args, prev, user, group, trace, live>>

\* lib.rs 176-179: Ok(())
PJ_ok ==
    /\ pc = "finish"
    /\ Return(OkUnit)
    /\ UNCHANGED <<euid, args, prev, user, group, trace, done, step>>
    /\ UNCHANGED <<runVars, childVars, pipeVars, threadVars>>

(***************************************************************************)
(* The runner: spawn_and_indent_with_stdin, lib.rs 451-508.                *)
(***************************************************************************)
\* Child::stdin / stdout / stderr .take(): Some for a stream the Command set
\* to Stdio::piped(), as lib.rs 458-460 does for all three
take(stream) == stream \in {"stdin", "stdout", "stderr"}

\* io::Error of a cmd.spawn() that failed
SpawnErrnos == {"ENOENT", "EACCES"}

\* format!("{:?}", cmd), lib.rs 511: the Debug text of a Command as a
\* sequence of blank-separated words, each word a sequence of pieces that
\* are quoted (q) or bare.  The text is whatever the standard library of the
\* build prints: the quoted program and arguments ("args"), or the
\* environment overrides as KEY="value" words in front of them ("env_args").
DebugFormats == {"args", "env_args"}

Quoted(str) == <<[q |-> TRUE, s |-> str]>>

RECURSIVE QuotedWords(_)
QuotedWords(strs) ==
    IF strs = <<>> THEN <<>>
    ELSE <<Quoted(Head(strs))>> \o QuotedWords(Tail(strs))

RECURSIVE EnvWords(_)
EnvWords(env) ==
    IF env = <<>> THEN <<>>
    ELSE << <<[q |-> FALSE, s |-> env[1] \o "="], [q |-> TRUE, s |-> env[2]]>> >>
         \o EnvWords(SubSeq(env, 3, Len(env)))

debug_fmt(cmd, fmt) ==
    (IF fmt = "env_args" THEN EnvWords(cmd.env) ELSE <<>>)
    \o <<Quoted(cmd.program)>> \o QuotedWords(cmd.args)

\* shell_words::split, lib.rs 511: the words of the text with their quotes
\* removed
RECURSIVE Unquote(_)
Unquote(word) ==
    IF word = <<>> THEN "" ELSE Head(word).s \o Unquote(Tail(word))

RECURSIVE shell_words_split(_)
shell_words_split(text) ==
    IF text = <<>> THEN <<>>
    ELSE <<Unquote(Head(text))>> \o shell_words_split(Tail(text))

\* cmd_get_program, lib.rs 510-516: the first word of the Command's Debug
\* text, or "<unknown>"
cmd_get_program(cmd, fmt) ==
    LET words == shell_words_split(debug_fmt(cmd, fmt))
    IN  IF words = <<>> THEN "<unknown>" ELSE Head(words)

\* An early return by `?`: the Child is dropped, and with it the pipe ends
\* no thread has taken
EarlyReturn(e) ==
    /\ verdict' = RunErr(e)
    /\ rpc' = "ret"
    /\ stdinW' = FALSE
    /\ outR' = (outR /\ outT = "running")
    /\ errR' = (errR /\ errT = "running")

\* lib.rs 463-465: cmd.spawn(), which the OS may refuse
R_spawn_ok ==
    /\ rpc = "spawn"
    /\ child' = [NoChild EXCEPT !.state = "running"]
    /\ live' = live + 1
    /\ stdinPipe' = <<>> /\ outPipe' = <<>> /\ errPipe' = <<>>
    /\ stdinW' = TRUE /\ outR' = TRUE /\ errR' = TRUE
    /\ rpc' = "stdin"
    /\ outT' = "none" /\ errT' = "none"
    /\ sinkOut' = <<>> /\ sinkErr' = <<>>
    /\ UNCHANGED <<stdinTodo, status, verdict, joined>>
    /\ UNCHANGED mainVars

R_spawn_err ==
    /\ rpc = "spawn"
    /\ \E fmt \in DebugFormats, e \in SpawnErrnos :
          verdict' = RunErr(CmdSpawn(cmd_get_program(Last(trace), fmt), e))
    /\ rpc' = "ret"
    /\ UNCHANGED <<stdinTodo, status, joined>>
    /\ UNCHANGED <<mainVars, childVars, pipeVars, threadVars>>

\* the closure answering Ok(()) to a write_all that failed
R_stdin_write_error_swallowed ==
    /\ rpc = "stdin"
    /\ stdinTodo # <<>>
    /\ IF child.state # "running" \/ child.in = "closed"
       THEN /\ stdinW' = FALSE
            /\ rpc' = "take_stdout"
            /\ UNCHANGED <<stdinTodo, stdinPipe, verdict, outR, errR>>
       ELSE /\ Len(stdinPipe) < StdinCap
            /\ stdinPipe' = Append(stdinPipe, Head(stdinTodo))
            /\ stdinTodo' = Tail(stdinTodo)
            /\ UNCHANGED <<rpc, verdict, stdinW, outR, errR>>
    /\ UNCHANGED <<status, joined, outPipe, errPipe>>
    /\ UNCHANGED <<mainVars, childVars, threadVars>>

\* lib.rs 468-469 with the closure of lib.rs 409-417: one write_all of the
\* next chunk. It waits for room in the pipe and fails (EPIPE) once the
\* child has exited or closed its stdin.
R_stdin_write ==
    /\ rpc = "stdin"
    /\ stdinTodo # <<>>
    /\ IF ~take("stdin")
       THEN /\ EarlyReturn(CmdStreamCapture("stdin"))
            /\ UNCHANGED <<stdinTodo, stdinPipe>>
       ELSE IF child.state # "running" \/ child.in = "closed"
       THEN /\ EarlyReturn(CmdStdinWrite)
            /\ UNCHANGED <<stdinTodo, stdinPipe>>
       ELSE /\ Len(stdinPipe) < StdinCap
            /\ stdinPipe' = Append(stdinPipe, Head(stdinTodo))
            /\ stdinTodo' = Tail(stdinTodo)
            /\ UNCHANGED <<rpc, verdict, stdinW, outR, errR>>
    /\ UNCHANGED <<status, joined, outPipe, errPipe>>
    /\ UNCHANGED <<mainVars, childVars, threadVars>>

\* the runner keeping the ChildStdin alive while it goes on to the threads
R_stdin_close_kept_open ==
    /\ rpc = "stdin"
    /\ stdinTodo = <<>>
    /\ rpc' = "take_stdout"
    /\ UNCHANGED <<verdict, stdinW, outR, errR>>
    /\ UNCHANGED <<stdinTodo, status, joined, stdinPipe, outPipe, errPipe>>
    /\ UNCHANGED <<mainVars, childVars, threadVars>>

\* lib.rs 467-470: the closure has returned Ok(()) and the ChildStdin is
\* dropped, which closes the child's input
R_stdin_close ==
    /\ rpc = "stdin"
    /\ stdinTodo = <<>>
    /\ IF ~take("stdin")
       THEN EarlyReturn(CmdStreamCapture("stdin"))
       ELSE /\ stdinW' = FALSE
            /\ rpc' = "take_stdout"
            /\ UNCHANGED <<verdict, outR, errR>>
    /\ UNCHANGED <<stdinTodo, status, joined, stdinPipe, outPipe, errPipe>>
    /\ UNCHANGED <<mainVars, childVars, threadVars>>

\* lib.rs 472-483: take stdout and start its thread
R_spawn_stdout ==
    /\ rpc = "take_stdout"
    /\ IF ~take("stdout")
       THEN /\ EarlyReturn(CmdStreamCapture("stdout"))
            /\ outT' = outT
       ELSE /\ outT' = "running"
            /\ rpc' = "take_stderr"
            /\ UNCHANGED <<verdict, stdinW, outR, errR>>
    /\ UNCHANGED <<stdinTodo, status, joined, stdinPipe, outPipe, errPipe>>
    /\ UNCHANGED <<errT, sinkOut, sinkErr>>
    /\ UNCHANGED <<mainVars, childVars>>

\* the runner joining the threads without calling child.wait() first
R_spawn_stderr_no_wait ==
    /\ rpc = "take_stderr"
    /\ errT' = "running"
    /\ rpc' = "join_stdout"
    /\ UNCHANGED <<verdict, stdinW, outR, errR>>
    /\ UNCHANGED <<stdinTodo, status, joined, stdinPipe, outPipe, errPipe>>
    /\ UNCHANGED <<outT, sinkOut, sinkErr>>
    /\ UNCHANGED <<mainVars, childVars>>

\* lib.rs 485-496: take stderr and start its thread
R_spawn_stderr ==
    /\ rpc = "take_stderr"
    /\ IF ~take("stderr")
       THEN /\ EarlyReturn(CmdStreamCapture("stderr"))
            /\ errT' = errT
       ELSE /\ errT' = "running"
            /\ rpc' = "wait"
            /\ UNCHANGED <<verdict, stdinW, outR, errR>>
    /\ UNCHANGED <<stdinTodo, status, joined, stdinPipe, outPipe, errPipe>>
    /\ UNCHANGED <<outT, sinkOut, sinkErr>>
    /\ UNCHANGED <<mainVars, childVars>>

\* child.wait() giving up on a child that has not exited
R_wait_timeout ==
    /\ rpc = "wait"
    /\ status' = IF child.state = "exited" THEN RunOk(child.exit)
                                           ELSE RunErr(CmdChildWait)
    /\ child' = IF child.state = "exited" THEN [child EXCEPT !.state = "reaped"]
                                          ELSE child
    /\ rpc' = "join_stdout"
    /\ UNCHANGED <<stdinTodo, verdict, joined, live>>
    /\ UNCHANGED <<mainVars, pipeVars, threadVars>>

\* lib.rs 498: let status = child.wait(), which returns once the child has
\* exited: its ExitStatus, or an io::Error (ECHILD when the process ignores
\* SIGCHLD and the kernel has reaped the child itself)
R_wait ==
    /\ rpc = "wait"
    /\ child.state = "exited"
    /\ \E ok \in BOOLEAN :
          status' = IF ok THEN RunOk(child.exit) ELSE RunErr(CmdChildWait)
    /\ child' = [child EXCEPT !.state = "reaped"]
    /\ rpc' = "join_stdout"
    /\ UNCHANGED <<stdinTodo, verdict, joined, live>>
    /\ UNCHANGED <<mainVars, pipeVars, threadVars>>

\* the runner dropping the result of stdout_handle.join()
R_join_stdout_result_dropped ==
    /\ rpc = "join_stdout"
    /\ outT \in {"finished", "panicked"}
    /\ joined' = joined \cup {"stdout"}
    /\ rpc' = "join_stderr"
    /\ UNCHANGED <<verdict, stdinW, outR, errR>>
    /\ UNCHANGED <<stdinTodo, status, stdinPipe, outPipe, errPipe>>
    /\ UNCHANGED <<mainVars, childVars, threadVars>>

\* lib.rs 500-502: stdout_handle.join().map_err(|_| CmdError::Thread("stdout"))?
R_join_stdout ==
    /\ rpc = "join_stdout"
    /\ outT \in {"finished", "panicked"}
    /\ joined' = joined \cup {"stdout"}
    /\ IF outT = "panicked"
       THEN EarlyReturn(CmdThread("stdout"))
       ELSE /\ rpc' = "join_stderr"
            /\ UNCHANGED <<verdict, stdinW, outR, errR>>
    /\ UNCHANGED <<stdinTodo, status, stdinPipe, outPipe, errPipe>>
    /\ UNCHANGED <<mainVars, childVars, threadVars>>

\* the runner returning the status without joining the stderr thread
R_join_stderr_detached ==
    /\ rpc = "join_stderr"
    /\ verdict' = status
    /\ rpc' = "ret"
    /\ UNCHANGED <<stdinTodo, status, joined>>
    /\ UNCHANGED <<mainVars, childVars, pipeVars, threadVars>>

\* the runner returning a failed wait before it looks at the stderr join
R_join_stderr_wait_first ==
    /\ rpc = "join_stderr"
    /\ errT \in {"finished", "panicked"}
    /\ joined' = joined \cup {"stderr"}
    /\ IF errT = "panicked" /\ status.kind = "Ok"
       THEN EarlyReturn(CmdThread("stderr"))
       ELSE /\ verdict' = status
            /\ rpc' = "ret"
            /\ UNCHANGED <<stdinW, outR, errR>>
    /\ UNCHANGED <<stdinTodo, status, stdinPipe, outPipe, errPipe>>
    /\ UNCHANGED <<mainVars, childVars, threadVars>>

\* lib.rs 503-507: stderr_handle.join().map_err(|_| CmdError::Thread("stderr"))?
\* and then status.map_err(CmdError::ChildWait)
R_join_stderr ==
    /\ rpc = "join_stderr"
    /\ errT \in {"finished", "panicked"}
    /\ joined' = joined \cup {"stderr"}
    /\ IF errT = "panicked"
       THEN EarlyReturn(CmdThread("stderr"))
       ELSE /\ verdict' = status
            /\ rpc' = "ret"
            /\ UNCHANGED <<stdinW, outR, errR>>
    /\ UNCHANGED <<stdinTodo, status, stdinPipe, outPipe, errPipe>>
    /\ UNCHANGED <<mainVars, childVars, threadVars>>

(***************************************************************************)
(* The two output threads, lib.rs 478-483 and 491-496.  A line is          *)
(* [s |-> the stream it was written to, n |-> its number in that stream,   *)
(* ok |-> it is valid UTF-8]; a sink holds the <<s, n>> it was handed.     *)
(***************************************************************************)
\* the stdout thread stopping at the first empty read instead of end of stream
T_stdout_eager_eof ==
    /\ outT = "running"
    /\ IF outPipe # <<>>
       THEN IF Head(outPipe).ok
            THEN /\ sinkOut' = Append(sinkOut, <<Head(outPipe).s, Head(outPipe).n>>)
                 /\ outPipe' = Tail(outPipe)
                 /\ UNCHANGED <<outT, outR>>
            ELSE /\ outT' = "panicked"
                 /\ outR' = FALSE
                 /\ outPipe' = <<>>
                 /\ sinkOut' = sinkOut
       ELSE /\ outT' = "finished"
            /\ outR' = FALSE
            /\ UNCHANGED <<outPipe, sinkOut>>
    /\ UNCHANGED <<errT, sinkErr, stdinPipe, stdinW, errPipe, errR>>
    /\ UNCHANGED <<mainVars, runVars, childVars>>

\* the stdout thread reading nothing until the child has exited
T_stdout_batched ==
    /\ outT = "running"
    /\ child.state # "running"
    /\ IF outPipe # <<>>
       THEN IF Head(outPipe).ok
            THEN /\ sinkOut' = Append(sinkOut, <<Head(outPipe).s, Head(outPipe).n>>)
                 /\ outPipe' = Tail(outPipe)
                 /\ UNCHANGED <<outT, outR>>
            ELSE /\ outT' = "panicked"
                 /\ outR' = FALSE
                 /\ outPipe' = <<>>
                 /\ sinkOut' = sinkOut
       ELSE /\ outT' = "finished"
            /\ outR' = FALSE
            /\ UNCHANGED <<outPipe, sinkOut>>
    /\ UNCHANGED <<errT, sinkErr, stdinPipe, stdinW, errPipe, errR>>
    /\ UNCHANGED <<mainVars, runVars, childVars>>

\* for line in stdout.lines() { output!("{}", line.expect(..)) }
T_stdout ==
    /\ outT = "running"
    /\ IF outPipe # <<>>
       THEN IF Head(outPipe).ok
            THEN /\ sinkOut' = Append(sinkOut, <<Head(outPipe).s, Head(outPipe).n>>)
                 /\ outPipe' = Tail(outPipe)
                 /\ UNCHANGED <<outT, outR>>
            ELSE /\ outT' = "panicked"
                 /\ outR' = FALSE
                 /\ outPipe' = <<>>
                 /\ sinkOut' = sinkOut
       ELSE /\ child.state # "running"
            /\ outT' = "finished"
            /\ outR' = FALSE
            /\ UNCHANGED <<outPipe, sinkOut>>
    /\ UNCHANGED <<errT, sinkErr, stdinPipe, stdinW, errPipe, errR>>
    /\ UNCHANGED <<mainVars, runVars, childVars>>

\* for line in stderr.lines() { eoutput!("{}", line.expect(..)) }
T_stderr ==
    /\ errT = "running"
    /\ IF errPipe # <<>>
       THEN IF Head(errPipe).ok
            THEN /\ sinkErr' = Append(sinkErr, <<Head(errPipe).s, Head(errPipe).n>>)
                 /\ errPipe' = Tail(errPipe)
                 /\ UNCHANGED <<errT, errR>>
            ELSE /\ errT' = "panicked"
                 /\ errR' = FALSE
                 /\ errPipe' = <<>>
                 /\ sinkErr' = sinkErr
       ELSE /\ child.state # "running"
            /\ errT' = "finished"
            /\ errR' = FALSE
            /\ UNCHANGED <<errPipe, sinkErr>>
    /\ UNCHANGED <<outT, sinkOut, stdinPipe, stdinW, outPipe, outR>>
    /\ UNCHANGED <<mainVars, runVars, childVars>>

(***************************************************************************)
(* The child process that cmd.spawn() started (lib.rs 458-465), seen        *)
(* through its three pipes: it writes lines to stdout and stderr, reads    *)
(* its stdin and exits, in an order of its own choosing.  A write to a     *)
(* full pipe and a read from an empty open pipe block the child.           *)
(***************************************************************************)
CanWriteOut == ~outR \/ Len(outPipe) < PipeCap
CanWriteErr == ~errR \/ Len(errPipe) < PipeCap
CanRead == stdinPipe # <<>> \/ ~stdinW

\* write(1, line): buffered for the reader, or lost when the read end is closed
C_write_stdout ==
    /\ child.state = "running"
    /\ child.blocked \in {"none", "out"}
    /\ child.nOut < MaxLines
    /\ CanWriteOut
    /\ \E ok \in BOOLEAN :
          outPipe' = IF outR
                     THEN Append(outPipe, [s |-> "stdout", n |-> child.nOut + 1,
                                           ok |-> ok])
                     ELSE outPipe
    /\ child' = [child EXCEPT !.nOut = @ + 1, !.blocked = "none"]
    /\ UNCHANGED <<live, stdinPipe, stdinW, outR, errPipe, errR>>
    /\ UNCHANGED <<mainVars, runVars, threadVars>>

\* write(2, line)
C_write_stderr ==
    /\ child.state = "running"
    /\ child.blocked \in {"none", "err"}
    /\ child.nErr < MaxLines
    /\ CanWriteErr
    /\ \E ok \in BOOLEAN :
          errPipe' = IF errR
                     THEN Append(errPipe, [s |-> "stderr", n |-> child.nErr + 1,
                                           ok |-> ok])
                     ELSE errPipe
    /\ child' = [child EXCEPT !.nErr = @ + 1, !.blocked = "none"]
    /\ UNCHANGED <<live, stdinPipe, stdinW, outPipe, outR, errR>>
    /\ UNCHANGED <<mainVars, runVars, threadVars>>

\* read(0): the next chunk, or end of input once the parent has closed its end
C_read_stdin ==
    /\ child.state = "running"
    /\ child.blocked \in {"none", "in"}
    /\ child.in = "open"
    /\ CanRead
    /\ IF stdinPipe # <<>>
       THEN /\ stdinPipe' = Tail(stdinPipe)
            /\ child' = [child EXCEPT !.nIn = @ + 1, !.blocked = "none"]
       ELSE /\ stdinPipe' = stdinPipe
            /\ child' = [child EXCEPT !.in = "eof", !.blocked = "none"]
    /\ UNCHANGED <<live, stdinW, outPipe, outR, errPipe, errR>>
    /\ UNCHANGED <<mainVars, runVars, threadVars>>

\* the child enters a write or a read that cannot proceed yet
C_block(op) ==
    /\ child.state = "running"
    /\ child.blocked = "none"
    /\ CASE op = "out" -> child.nOut < MaxLines /\ ~CanWriteOut
         [] op = "err" -> child.nErr < MaxLines /\ ~CanWriteErr
         [] op = "in"  -> child.in = "open" /\ ~CanRead
    /\ child' = [child EXCEPT !.blocked = op]
    /\ UNCHANGED <<live, pipeVars>>
    /\ UNCHANGED <<mainVars, runVars, threadVars>>

\* close(0) while the parent still holds the write end: what the pipe
\* buffers is lost, and a later write by the parent fails
C_close_stdin ==
    /\ child.state = "running"
    /\ child.blocked = "none"
    /\ child.in = "open"
    /\ stdinW
    /\ child' = [child EXCEPT !.in = "closed"]
    /\ stdinPipe' = <<>>
    /\ UNCHANGED <<live, stdinW, outPipe, outR, errPipe, errR>>
    /\ UNCHANGED <<mainVars, runVars, threadVars>>

\* exit(code) or death by a signal: the child's ends of the pipes close
C_exit(st) ==
    /\ child.state = "running"
    /\ child.blocked = "none"
    /\ child' = [child EXCEPT !.state = "exited", !.exit = st]
    /\ live' = live - 1
    /\ stdinPipe' = <<>>
    /\ UNCHANGED <<stdinW, outPipe, outR, errPipe, errR>>
    /\ UNCHANGED <<mainVars, runVars, threadVars>>

(***************************************************************************)
(* The specification.                                                      *)
(***************************************************************************)
ExecSteps == {"sudo", "group", "user", "ssh"}

Next ==
    \/ Main_ensure_root
    \/ PJ_find_user
    \/ PJ_create_pkglist_json
    \/ PJ_run_iocage_create
    \/ PJ_find_group
    \/ \E s \in ExecSteps : PJ_iocage_exec(s)
    \/ PJ_step_return
    \/ PJ_ok
    \/ R_spawn_ok
    \/ R_spawn_err
    \/ R_stdin_write
    \/ R_stdin_close
    \/ R_spawn_stdout
    \/ R_spawn_stderr
    \/ R_wait
    \/ R_join_stdout
    \/ R_join_stderr
    \/ T_stdout
    \/ T_stderr
    \/ C_write_stdout
    \/ C_write_stderr
    \/ C_read_stdin
    \/ C_close_stdin
    \/ \E op \in {"out", "err", "in"} : C_block(op)
    \/ \E st \in ExitStatuses : C_exit(st)

Spec == Init /\ [][Next]_vars

TypeOK ==
    /\ pc \in {"ensure_root", "find_user", "pkglist", "create", "find_group",
               "sudo", "group", "user", "ssh", "finish", "exit"}
    /\ rpc \in {"idle", "spawn", "stdin", "take_stdout", "take_stderr", "wait",
                "join_stdout", "join_stderr", "ret"}
    /\ live \in 0..1
    /\ Len(outPipe) <= PipeCap /\ Len(errPipe) <= PipeCap
    /\ Len(stdinPipe) <= StdinCap
    /\ prev.ran \in BOOLEAN

(***************************************************************************)
(* Vocabulary of the properties.                                           *)
(***************************************************************************)
Range(f) == {f[i] : i \in DOMAIN f}
IsPrefix(a, b) == Len(a) <= Len(b) /\ \A i \in 1..Len(a) : a[i] = b[i]

\* the steps of the invocations issued so far, in order
TraceSteps == [i \in 1..Len(trace) |-> trace[i].step]

\* provision_jail was entered and has returned
Returned == pc = "exit" /\ result.kind # "NotRoot"

\* the request names a user found on the host whose primary group resolves
HasIdentity ==
    /\ args.user \in DOMAIN Passwd
    /\ Passwd[args.user].gid \in DOMAIN GroupDb

\* the steps the request asks for
RequestedSteps ==
    {"create"} \cup (IF args.user # None THEN {"sudo", "group", "user"} ELSE {})
               \cup (IF args.ssh THEN {"ssh"} ELSE {})

\* a runner verdict that is not "exited with code 0"
RunFailed(v) == v # RunOk(Exited(0))

StepOk(s) == \E i \in 1..Len(done) : done[i].step = s /\ ~RunFailed(done[i].verdict)
StepFailed(s) == \E i \in 1..Len(done) : done[i].step = s /\ RunFailed(done[i].verdict)

\* the error kind that belongs to each step
KindOfStep ==
    [create |-> "IocageCreate", sudo |-> "ExecSudoConfig", group |-> "ExecCreateGroup",
     user |-> "ExecCreateUser", ssh |-> "ExecSshService"]

\* the invocations are a prefix of create, sudo-config, group-create,
\* user-create(, ssh-enable): none reordered, none skipped
InOrder == IsPrefix(TraceSteps, StepOrder)

(***************************************************************************)
(* C1                                                                      *)
(***************************************************************************)
\* C1 as stated: for a request with an identity the invocations are issued in
\* the order create, sudo-config, group-create, user-create, and one of
\* these four is absent from the trace of a finished call only if an earlier
\* one of them failed.
C1_AbsentOnlyAfterFailure ==
    HasIdentity =>
        /\ InOrder
        /\ Returned =>
              \A i \in 1..4 :
                  StepOrder[i] \notin Range(TraceSteps)
                      => \E j \in 1..(i - 1) : StepFailed(StepOrder[j])

\* C1 amended: for a request with an identity the invocations are issued in
\* the order create, sudo-config, group-create, user-create, and one of
\* these four is absent from the trace of a finished call only if an earlier
\* one of them failed or the package-list file could not be generated
\* (CreatePkglistJson), in which case no invocation is issued.
C1_OrderedUnlessFailed ==
    HasIdentity =>
        /\ InOrder
        /\ Returned =>
              \A i \in 1..4 :
                  StepOrder[i] \notin Range(TraceSteps)
                      => \/ \E j \in 1..(i - 1) : StepFailed(StepOrder[j])
                         \/ result.kind = "CreatePkglistJson" /\ trace = <<>>

C1_Witness ==
    /\ HasIdentity /\ Returned
    /\ \A i \in 1..Len(done) : ~RunFailed(done[i].verdict)
    /\ Len(trace) >= 4
    /\ <<trace[1].step, trace[2].step, trace[3].step, trace[4].step>>
           = <<"create", "sudo", "group", "user">>

(***************************************************************************)
(* C2                                                                      *)
(***************************************************************************)
\* C2: once the runner call of a step has ended in failure (an error, or an
\* exit status other than code 0), that step is the last one invoked, no
\* other invocation follows it, and provision_jail has returned the error
\* kind of that step.
C2_FailureIsTerminal ==
    /\ rpc = "ret" /\ RunFailed(verdict) => Len(trace) = Len(done) + 1
    /\ \A i \in 1..Len(done) :
          RunFailed(done[i].verdict) =>
              /\ i = Len(done)
              /\ Len(trace) = i
              /\ trace[i].step = done[i].step
              /\ rpc = "idle"
              /\ pc = "exit"
              /\ result.kind = KindOfStep[done[i].step]
              /\ result = done[i].result

C2_Witness ==
    /\ Len(done) = 3
    /\ done[3].step = "group"
    /\ done[3].verdict = RunOk(Exited(1))
    /\ args.ssh
    /\ pc = "exit"

(***************************************************************************)
(* C3                                                                      *)
(***************************************************************************)
\* C3 as stated: a finished provision_jail call for a request with no
\* identity and ssh = false has issued exactly one invocation, the
\* create-jail one, and no exec-in-jail invocation is ever issued for it.
C3_ExactlyOneCreate ==
    args.user = None /\ ~args.ssh =>
        /\ \A i \in 1..Len(trace) : trace[i].step = "create"
        /\ Returned => Len(trace) = 1

\* C3 amended: for a request with no identity and ssh = false a provision
\* call never issues an exec-in-jail invocation and issues the create-jail
\* invocation exactly once, whether create succeeds or fails, unless the
\* package-list file cannot be generated, in which case it issues none.
C3_OnlyCreate ==
    args.user = None /\ ~args.ssh =>
        /\ \A i \in 1..Len(trace) : trace[i].step = "create" /\ trace[i].args[1] # "exec"
        /\ Len(trace) <= 1
        /\ Returned =>
              IF result.kind = "CreatePkglistJson"
              THEN Len(trace) = 0
              ELSE Len(trace) = 1 /\ Len(done) = 1

C3_Witness ==
    /\ args.user = None /\ ~args.ssh
    /\ Returned
    /\ result.kind = "Ok"
    /\ Len(trace) = 1

(***************************************************************************)
(* C4                                                                      *)
(***************************************************************************)
\* C4: provision_jail has returned Ok only if every requested step has been
\* invoked and its runner call returned exit code 0.
C4_SuccessMeansAllDone ==
    result.kind = "Ok" =>
        \A s \in RequestedSteps : s \in Range(TraceSteps) /\ StepOk(s)

C4_Witness ==
    /\ result.kind = "Ok"
    /\ args.user # None /\ args.ssh
    /\ Len(done) = 5

(***************************************************************************)
(* C5                                                                      *)
(***************************************************************************)
\* C5: for a requested user name that is not on the host, provision_jail
\* returns NoUser with no invocation issued, no child process started and no
\* package-list file written.
C5_NoUserBeforeAnyProcess ==
    args.user # None /\ args.user \notin DOMAIN Passwd =>
        /\ trace = <<>>
        /\ live = 0
        /\ child.state = "none"
        /\ tmpfs = {}
        /\ Returned => result.kind = "NoUser" /\ result.user = args.user

C5_Witness ==
    /\ args.user = "ghost"
    /\ Returned
    /\ result.kind = "NoUser"

(***************************************************************************)
(* C6                                                                      *)
(***************************************************************************)
\* C6: at most one child process is in flight at any time, and when the
\* invocation of a step starts every earlier invocation's runner call has
\* returned its verdict and its child has exited.
C6_OneChildAtATime ==
    /\ live <= 1
    /\ Len(done) <= Len(trace) /\ Len(trace) <= Len(done) + 1
    /\ rpc = "spawn" => live = 0 /\ Len(done) = Len(trace) - 1
    /\ rpc = "idle" => Len(done) = Len(trace)

C6_Witness ==
    /\ live = 1
    /\ Len(trace) = 3
    /\ Len(done) = 2
    /\ outT = "running" /\ errT = "running"

(***************************************************************************)
(* C7                                                                      *)
(***************************************************************************)
\* every requested step before ssh-enable has been invoked and returned
\* exit code 0
EarlierAllOk == \A s \in RequestedSteps \ {"ssh"} : StepOk(s)

\* C7: ssh-enable is invoked only if SSH was requested and every earlier
\* requested step succeeded, and a finished call has invoked it whenever
\* that is so; it is the last invocation, the fifth one, right after a
\* successful user-create, when an identity was requested and the second
\* one, right after create, when none was; its failure is returned as
\* ExecSshService.
C7_SshLast ==
    /\ "ssh" \in Range(TraceSteps) =>
          /\ args.ssh
          /\ EarlierAllOk
          /\ trace[Len(trace)].step = "ssh"
          /\ IF args.user # None
             THEN /\ Len(trace) = 5
                  /\ trace[4].step = "user"
                  /\ done[4].step = "user" /\ ~RunFailed(done[4].verdict)
             ELSE /\ Len(trace) = 2
                  /\ trace[1].step = "create"
    /\ Returned /\ args.ssh /\ EarlierAllOk => "ssh" \in Range(TraceSteps)
    /\ StepFailed("ssh") => pc = "exit" /\ result.kind = "ExecSshService"

C7_Witness ==
    /\ args.ssh /\ args.user # None
    /\ Returned
    /\ Len(trace) = 5
    /\ StepFailed("ssh")

(***************************************************************************)
(* C8                                                                      *)
(***************************************************************************)
\* C8: when the runner call has returned an exit status, the child has
\* exited, both output threads have read their stream to its end and
\* finished, and the status is the one the child exited with.
C8_StatusAfterExitAndDrain ==
    rpc = "ret" /\ verdict.kind = "Ok" =>
        /\ child.state \in {"exited", "reaped"}
        /\ outT = "finished" /\ errT = "finished"
        /\ outPipe = <<>> /\ errPipe = <<>>
        /\ ~outR /\ ~errR
        /\ verdict.status = child.exit

C8_Witness ==
    /\ rpc = "ret"
    /\ verdict = RunOk(Exited(1))
    /\ child.nOut > 0 /\ child.nErr > 0

(***************************************************************************)
(* C9                                                                      *)
(***************************************************************************)
\* C9: whenever the runner call has returned, every output thread it started
\* has been joined and none is still running.
C9_ThreadsJoinedOnReturn ==
    rpc = "ret" =>
        /\ outT # "none" => "stdout" \in joined /\ outT # "running"
        /\ errT # "none" => "stderr" \in joined /\ errT # "running"

(***************************************************************************)
(* C10                                                                     *)
(***************************************************************************)
\* the first n lines of a stream, as a sink receives them
Lines(stream, n) == [i \in 1..n |-> <<stream, i>>]

\* the child wrote only decodable lines: no thread met an undecodable one
\* and none waits in a pipe
OnlyDecodable ==
    /\ outT # "panicked" /\ errT # "panicked"
    /\ \A i \in 1..Len(outPipe) : outPipe[i].ok
    /\ \A i \in 1..Len(errPipe) : errPipe[i].ok

\* C10 as stated: each sink only ever holds lines of its own stream, each
\* once and in the order the child wrote them, and whenever the runner call
\* has returned for a child that wrote N decodable lines to stdout and M to
\* stderr and exited with code 0, the sinks hold all N and all M lines.
C10_AllLinesWhenReturned ==
    /\ IsPrefix(sinkOut, Lines("stdout", child.nOut))
    /\ IsPrefix(sinkErr, Lines("stderr", child.nErr))
    /\ (/\ rpc = "ret"
        /\ child.state \in {"exited", "reaped"}
        /\ child.exit = Exited(0)
        /\ OnlyDecodable) =>
          /\ sinkOut = Lines("stdout", child.nOut)
          /\ sinkErr = Lines("stderr", child.nErr)

\* C10 amended: each sink only ever holds lines of its own stream, each once
\* and in the order the child wrote them, and when the runner call returns
\* the exit status of a child that exited with code 0 the stdout sink holds
\* all N lines the child wrote to stdout and the stderr sink all M lines it
\* wrote to stderr.
C10_AllLinesOnceInOrder ==
    /\ IsPrefix(sinkOut, Lines("stdout", child.nOut))
    /\ IsPrefix(sinkErr, Lines("stderr", child.nErr))
    /\ rpc = "ret" /\ verdict = RunOk(Exited(0)) =>
          /\ sinkOut = Lines("stdout", child.nOut)
          /\ sinkErr = Lines("stderr", child.nErr)

C10_Witness ==
    /\ rpc = "ret"
    /\ verdict = RunOk(Exited(0))
    /\ child.nOut = 2 /\ child.nErr = 2
    /\ Len(sinkOut) = 2 /\ Len(sinkErr) = 2

(***************************************************************************)
(* C11                                                                     *)
(***************************************************************************)
\* the main thread is inside a runner call and cannot take its next step
ParentBlocked ==
    \/ /\ rpc = "stdin" /\ stdinTodo # <<>>
       /\ child.state = "running" /\ child.in # "closed"
       /\ Len(stdinPipe) >= StdinCap
    \/ rpc = "wait" /\ child.state = "running"
    \/ rpc = "join_stdout" /\ outT = "running"
    \/ rpc = "join_stderr" /\ errT = "running"

\* the child is inside a write or a read that cannot proceed
ChildBlocked ==
    /\ child.state = "running"
    /\ \/ child.blocked = "out" /\ ~CanWriteOut
       \/ child.blocked = "err" /\ ~CanWriteErr
       \/ child.blocked = "in" /\ ~CanRead

\* no output thread can take a step: none runs, or each that runs waits for
\* a line of a child that has not exited
ThreadsBlocked ==
    /\ outT = "running" => outPipe = <<>> /\ child.state = "running"
    /\ errT = "running" => errPipe = <<>> /\ child.state = "running"

\* C11: a runner call never deadlocks on bounded pipes: there is no
\* reachable state in which the parent, the child and the output threads
\* are all blocked.
C11_NoDeadlock == ~(ParentBlocked /\ ChildBlocked /\ ThreadsBlocked)

(***************************************************************************)
(* C12                                                                     *)
(***************************************************************************)
\* the runner is past the block of lib.rs 467-470
PastStdin ==
    rpc \in {"take_stdout", "take_stderr", "wait", "join_stdout", "join_stderr"}

\* C12: before the parent starts an output thread and before it waits, the
\* whole stdin payload has been written and the child's input is closed, so
\* that a read by the child never blocks from then on; a child that kept
\* its input open has received every chunk; a command without payload has
\* nothing written to its input before it is closed.
C12_StdinClosedBeforeDrainAndWait ==
    /\ PastStdin \/ outT = "running" \/ errT = "running"
          => stdinTodo = <<>> /\ ~stdinW /\ CanRead
    /\ PastStdin /\ child.state = "running" /\ child.in # "closed"
          => child.nIn + Len(stdinPipe) = Len(Last(trace).stdin)
    /\ step = "create" /\ rpc = "stdin"
          => stdinTodo = <<>> /\ stdinPipe = <<>> /\ child.nIn = 0

\* the parent waits for an exec child that has read both chunks of the
\* payload and then the end of its input
C12_Witness ==
    /\ rpc = "wait" /\ step = "sudo"
    /\ child.state = "running" /\ child.nIn = 2 /\ child.in = "eof"
    /\ outT = "running" /\ errT = "running"

(***************************************************************************)
(* C13                                                                     *)
(***************************************************************************)
\* C13 as stated: when a thread has aborted on a line it could not decode,
\* the call returns the thread error that names the stream of that thread.
C13_ErrorNamesTheStream ==
    rpc = "ret" =>
        /\ outT = "panicked" => verdict = RunErr(CmdThread("stdout"))
        /\ errT = "panicked" => verdict = RunErr(CmdThread("stderr"))

\* C13: when a thread has aborted on a line it could not decode, the call
\* returns a thread error and never an exit status, whatever the child's
\* exit status; the error names stdout when the stdout thread aborted, and
\* stderr when only the stderr thread did.
C13_ThreadErrorStdoutFirst ==
    rpc = "ret" =>
        /\ outT = "panicked" => verdict = RunErr(CmdThread("stdout"))
        /\ errT = "panicked" /\ outT # "panicked"
              => verdict = RunErr(CmdThread("stderr"))

\* the child exited 0, the stderr thread aborted, and the call returns the
\* stderr thread error
C13_Witness ==
    /\ rpc = "ret"
    /\ status = RunOk(Exited(0))
    /\ outT = "finished" /\ errT = "panicked"
    /\ verdict = RunErr(CmdThread("stderr"))

(***************************************************************************)
(* C14                                                                     *)
(***************************************************************************)
\* C14: a call that returns with part of its payload unwritten to a child
\* it had started returns the stdin-write error; a call that returns the
\* stdin-write error has no exit status, has started and joined no output
\* thread, and has delivered no line.
C14_StdinWriteFailure ==
    rpc = "ret" =>
        /\ stdinTodo # <<>> /\ child.state # "none"
              => verdict = RunErr(CmdStdinWrite)
        /\ verdict = RunErr(CmdStdinWrite)
              => /\ status = NoResult
                 /\ outT = "none" /\ errT = "none" /\ joined = {}
                 /\ sinkOut = <<>> /\ sinkErr = <<>>

\* a child wrote a line, read the first chunk and exited 0 before the
\* second chunk was written: the call returns the stdin-write error
C14_Witness ==
    /\ rpc = "ret"
    /\ verdict = RunErr(CmdStdinWrite)
    /\ Len(stdinTodo) = 1
    /\ child.state = "exited" /\ child.exit = Exited(0)
    /\ child.nOut = 1 /\ child.nIn = 1

(***************************************************************************)
(* C15                                                                     *)
(***************************************************************************)
\* C15: a call whose program could not be started returns the spawn error
\* with the OS error and the name of the program; nothing of the payload
\* was written, no output thread was started and no line was delivered.
C15_SpawnFailure ==
    rpc = "ret" /\ verdict.kind = "Err" /\ verdict.err.kind = "Spawn" =>
        /\ verdict.err.err \in SpawnErrnos
        /\ verdict.err.program = Last(trace).program
        /\ child.state = "none"
        /\ stdinTodo = Last(trace).stdin /\ stdinPipe = <<>>
        /\ outT = "none" /\ errT = "none" /\ joined = {}
        /\ sinkOut = <<>> /\ sinkErr = <<>>

(***************************************************************************)
(* C16                                                                     *)
(***************************************************************************)
\* C16: a step whose runner call returned an exit status succeeded if and
\* only if the child exited with code 0; with any other code the step
\* failed with the command-failed error that carries that code, and with a
\* child killed by a signal it failed with the command-failed error.
C16_SuccessIffExitZero ==
    \A i \in DOMAIN done :
        LET d == done[i] IN
        d.verdict.kind = "Ok" =>
            /\ d.result.kind = "Ok" <=> d.verdict.status = Exited(0)
            /\ d.verdict.status # Exited(0)
                  => /\ d.result.kind = KindOfStep[d.step]
                     /\ d.result.source.kind = "Failed"
            /\ d.verdict.status.exited /\ d.verdict.status # Exited(0)
                  => d.result.source.code = d.verdict.status.code

\* the first step succeeded with exit code 0 and the second failed with
\* exit code 1, which its error carries
C16_Witness ==
    /\ Len(done) = 2
    /\ done[1].verdict = RunOk(Exited(0)) /\ done[1].result = OkUnit
    /\ done[2].verdict = RunOk(Exited(1))
    /\ done[2].result.source = CmdFailed(1)

(***************************************************************************)
(* C17                                                                     *)
(***************************************************************************)
\* C17: every failure of a runner call or of the command it ran (spawn,
\* stdin write, stream capture, output thread, wait, exit status other than
\* 0) is what provision returns to its caller, wrapped in the error kind of
\* the step, which is the kind of no other step, with the failure itself as
\* the source.
C17_FailureWrappedInStepKind ==
    \A i \in DOMAIN done :
        LET d == done[i] IN
        RunFailed(d.verdict) =>
            /\ pc = "exit" /\ result = d.result
            /\ d.result.kind = KindOfStep[d.step]
            /\ \A s \in Range(StepOrder) \ {d.step} :
                  StepErrorKind(s) # d.result.kind
            /\ IF d.verdict.kind = "Err"
               THEN d.result.source = d.verdict.err
               ELSE d.result.source.kind = "Failed"

\* the group-create step failed because its stderr thread aborted, and
\* provision returned that error as ExecCreateGroup
C17_Witness ==
    /\ pc = "exit"
    /\ result = [kind |-> "ExecCreateGroup", source |-> CmdThread("stderr")]
    /\ Len(done) = 3 /\ done[3].step = "group"

(***************************************************************************)
(* C18                                                                     *)
(***************************************************************************)
\* the place of a step in the order create, sudo-config, group-create,
\* user-create, ssh-enable
Pos(s) == CHOOSE i \in DOMAIN StepOrder : StepOrder[i] = s

\* C18: within one call of provision every step is invoked at most once and
\* the steps invoked follow the order create, sudo-config, group-create,
\* user-create, ssh-enable: an invocation is never followed by an invocation
\* of the same or of an earlier step, and the step provision is about to
\* invoke comes after every step it has invoked.
C18_OnceAndForward ==
    /\ \A i, j \in DOMAIN trace :
          i < j => Pos(trace[i].step) < Pos(trace[j].step)
    /\ pc \in Range(StepOrder) /\ rpc = "idle"
          => \A i \in DOMAIN trace : Pos(trace[i].step) < Pos(pc)
    /\ \A i \in DOMAIN done : done[i].step = trace[i].step

\* all five steps have been invoked, each once, and the last has returned
C18_Witness ==
    /\ TraceSteps = StepOrder
    /\ Len(done) = 5
    /\ pc = "exit"

(***************************************************************************)
(* C19                                                                     *)
(***************************************************************************)
\* C19: the package list written for the jail is {"pkgs":[]} when no user
\* was given, {"pkgs":["sudo","bash"]} when the last component of the
\* user's shell is bash, and {"pkgs":["sudo"]} for a user with any other
\* shell or with none.
C19_PkglistPayload ==
    \A f \in tmpfs :
        /\ user = NoneRec => f.content = "{\"pkgs\":[]}"
        /\ user # NoneRec /\ user.shell # <<>> /\ Last(user.shell) = "bash"
              => f.content = "{\"pkgs\":[\"sudo\",\"bash\"]}"
        /\ user # NoneRec /\ (user.shell = <<>> \/ Last(user.shell) # "bash")
              => f.content = "{\"pkgs\":[\"sudo\"]}"

\* the create step runs with the package list of a user whose shell is bash
C19_Witness ==
    /\ step = "create" /\ rpc = "wait"
    /\ user # NoneRec /\ user.shell = <<"usr", "local", "bin", "bash">>
    /\ tmpfs = {[path |-> json, content |-> "{\"pkgs\":[\"sudo\",\"bash\"]}"]}

(***************************************************************************)
(* C20                                                                     *)
(***************************************************************************)
\* C20: while the create-jail invocation runs, the file whose path it was
\* given exists and holds the generated package list; when provision has
\* returned, on whatever path, no package-list file exists.
C20_TempFileDuringCreateGoneOnReturn ==
    /\ step = "create" /\ rpc # "idle"
          => /\ Last(trace).args[7] = "--pkglist" /\ Last(trace).args[8] = json
             /\ tmpfs = {[path |-> json, content |-> pkglist_json_str(user)]}
    /\ pc = "exit" => tmpfs = {} /\ json = None

\* provision has returned the group-lookup failure after a create step that
\* succeeded, and the file is gone
C20_Witness ==
    /\ pc = "exit"
    /\ result.kind = "NoGid"
    /\ Len(done) = 1 /\ done[1].step = "create" /\ done[1].result = OkUnit
    /\ tmpfs = {}

(***************************************************************************)
(* C21                                                                     *)
(***************************************************************************)
\* the paths a package-list file can have
PkglistPaths == {pkglist_path(rand) : rand \in RandSuffixes}

\* the arguments that follow the package-list path and --thickjail
NetArgs ==
    <<"vnet=on", "ip4_addr=vnet0|192.168.0.100/24",
      "defaultrouter=192.168.0.1", "resolver=none", "boot=on">>

ThickArg == IF args.thick_jail THEN <<"--thickjail">> ELSE <<>>

\* C21 as stated: the create-jail invocation has the arguments create
\* --name <name> --release <release> --pkglist <tmp> [--thickjail] --force
\* vnet=on ip4_addr=vnet0|<ip/mask> defaultrouter=<gateway> resolver=none
\* boot=on, in this order.
C21_ForceAfterPkglist ==
    \A i \in DOMAIN trace :
        trace[i].step = "create" =>
            \E p \in PkglistPaths :
                trace[i].args = <<"create", "--name", "ferris", "--release",
                                  "13.1-RELEASE", "--pkglist", p>>
                                \o ThickArg \o <<"--force">> \o NetArgs

\* C21: the create-jail invocation runs iocage with the arguments --force
\* create --name <name> --release <release> --pkglist <tmp> [--thickjail]
\* vnet=on ip4_addr=vnet0|<ip/mask> defaultrouter=<gateway> resolver=none
\* boot=on, in this order, --thickjail being there exactly when the thick
\* flag is set; with no user and no ssh no other invocation is made.
C21_ForceFirst ==
    /\ \A i \in DOMAIN trace :
          trace[i].step = "create" =>
              /\ trace[i].program = "iocage"
              /\ \E p \in PkglistPaths :
                    trace[i].args = <<"--force", "create", "--name", "ferris",
                                      "--release", "13.1-RELEASE", "--pkglist", p>>
                                    \o ThickArg \o NetArgs
    /\ args.user = None /\ ~args.ssh
          => /\ Len(trace) <= 1
             /\ pc = "exit" /\ result = OkUnit => TraceSteps = <<"create">>

\* provision has returned Ok for ferris without user, ssh or thick jail
\* after the one create invocation
C21_Witness ==
    /\ args.user = None /\ ~args.ssh /\ ~args.thick_jail
    /\ pc = "exit" /\ result = OkUnit
    /\ Len(trace) = 1
    /\ trace[1].args = <<"--force", "create", "--name", "ferris", "--release",
                         "13.1-RELEASE", "--pkglist", "/tmp/pkglistaaaaa.json",
                         "vnet=on", "ip4_addr=vnet0|192.168.0.100/24",
                         "defaultrouter=192.168.0.1", "resolver=none", "boot=on">>

(***************************************************************************)
(* C22                                                                     *)
(***************************************************************************)
\* C22: every exec-in-jail invocation runs iocage with the arguments exec
\* <jail-name> sh, the jail name being the one the create invocation of the
\* call was given after --name; its stdin payload is "set -eu\n\n" followed
\* by the script of the step, and its environment override is that of the
\* create invocation.
C22_ExecInvocation ==
    \A i \in DOMAIN trace :
        trace[i].step \in ExecSteps =>
            /\ trace[1].step = "create" /\ trace[1].args[3] = "--name"
            /\ trace[i].program = "iocage"
            /\ trace[i].args = <<"exec", trace[1].args[4], "sh">>
            /\ trace[i].env = trace[1].env
            /\ trace[i].env = <<"PYTHONUNBUFFERED", "true">>
            /\ trace[i].stdin
                  = <<"set -eu\n\n", ExecSrc(trace[i].step, user, group)>>

\* the group-create step of jdoe has been invoked in jail ferris
C22_Witness ==
    /\ Len(trace) = 3
    /\ trace[3].step = "group"
    /\ trace[3].args = <<"exec", "ferris", "sh">>
    /\ trace[3].stdin = <<"set -eu\n\n", "pw groupadd -n 'jdoe' -g '1001'">>
    /\ rpc = "wait"

(***************************************************************************)
(* C23: the program run twice with the same command line and a runner that *)
(* always reports success.                                                 *)
(***************************************************************************)
\* spawn_and_indent_with_stdin replaced by a runner that starts nothing and
\* returns Ok(status) with status.success()
Stub_runner_success ==
    /\ rpc = "spawn"
    /\ verdict' = RunOk(Exited(0))
    /\ rpc' = "ret"
    /\ UNCHANGED <<stdinTodo, status, joined>>
    /\ UNCHANGED <<mainVars, childVars, pipeVars, threadVars>>

\* the second run changing the thick-jail flag of the command line
Replay_other_request ==
    /\ pc = "exit"
    /\ ~prev.ran
    /\ prev' = [ran |-> TRUE, trace |-> trace, result |-> result]
    /\ args' = [args EXCEPT !.thick_jail = ~@]
    /\ pc' = "ensure_root"
    /\ user' = NoneRec /\ group' = NoneRec
    /\ trace' = <<>> /\ done' = <<>>
    /\ result' = NoResult
    /\ UNCHANGED <<euid, json, tmpfs, step>>
    /\ UNCHANGED <<runVars, childVars, pipeVars, threadVars>>

\* main.rs 10-29 once more: the program is started again by the same user
\* with the same command line, after its first run has returned
Replay ==
    /\ pc = "exit"
    /\ ~prev.ran
    /\ prev' = [ran |-> TRUE, trace |-> trace, result |-> result]
    /\ pc' = "ensure_root"
    /\ user' = NoneRec /\ group' = NoneRec
    /\ trace' = <<>> /\ done' = <<>>
    /\ result' = NoResult
    /\ UNCHANGED <<euid, args, json, tmpfs, step>>
    /\ UNCHANGED <<runVars, childVars, pipeVars, threadVars>>

NextReplay ==
    \/ Main_ensure_root
    \/ PJ_find_user
    \/ PJ_create_pkglist_json
    \/ PJ_run_iocage_create
    \/ PJ_find_group
    \/ \E s \in ExecSteps : PJ_iocage_exec(s)
    \/ Stub_runner_success
    \/ PJ_step_return
    \/ PJ_ok
    \/ Replay

SpecReplay == Init /\ [][NextReplay]_vars

\* both runs have returned Ok
BothRunsOk ==
    /\ prev.ran /\ prev.result = OkUnit
    /\ pc = "exit" /\ result = OkUnit

NoPath(cmd) ==
    IF cmd.step = "create" THEN [cmd EXCEPT !.args[8] = "<tmp>"] ELSE cmd

C25_NotRootBeforeProvisioning ==
    /\ euid # 0 =>
          /\ pc \in {"ensure_root", "exit"}
          /\ pc = "exit" => result = [kind |-> "NotRoot"]
          /\ user = NoneRec /\ json = None /\ tmpfs = {}
          /\ trace = <<>> /\ rpc = "idle" /\ live = 0
    /\ euid = 0 => result.kind # "NotRoot"

\* a caller with uid 1001 who asked for a user and ssh got NotRoot
C25_Witness ==
    /\ euid = 1001
    /\ args.user = "jdoe" /\ args.ssh
    /\ pc = "exit" /\ result = [kind |-> "NotRoot"]
    /\ trace = <<>>

(***************************************************************************)
(* C26                                                                     *)
(***************************************************************************)
\* the runner call of the current step is in progress, at or before
\* child.wait()
CallInProgress == rpc \in {"stdin", "take_stdout", "take_stderr", "wait"}

\* C26 as stated: while the child of the current step has not exited the
\* runner call has not returned and provision has not returned.
C26_BlockedWhileChildRuns ==
    child.state = "running" =>
        /\ CallInProgress
        /\ status = NoResult
        /\ pc # "exit"

\* C26: while the child of the current step has not exited, no exit status
\* has been obtained and the runner call is in progress at or before
\* child.wait(), or it has returned the stdin-write error, with which
\* provision returns without starting another step.
C26_BlockedUnlessStdinWrite ==
    /\ child.state = "running" =>
          /\ status = NoResult
          /\ \/ CallInProgress /\ pc # "exit"
             \/ rpc = "ret" /\ verdict = RunErr(CmdStdinWrite) /\ pc # "exit"
             \/ /\ rpc = "idle" /\ pc = "exit"
                /\ result.kind \in {KindOfStep[s] : s \in ExecSteps}
                /\ result.source = CmdStdinWrite
    /\ rpc \in {"join_stdout", "join_stderr"} => child.state = "reaped"

\* the parent is in child.wait() for a create child that has written
\* nothing, has seen the end of its input and does not exit
C26_Witness ==
    /\ step = "create" /\ rpc = "wait"
    /\ child.state = "running" /\ child.in = "eof"
    /\ child.nOut = 0 /\ child.nErr = 0
    /\ outT = "running" /\ errT = "running"

(***************************************************************************)
(* C27                                                                     *)
(***************************************************************************)
\* the places of text str where sub starts
Occurrences(str, sub) ==
    {i \in 1..(Len(str) - Len(sub) + 1) : SubSeq(str, i, i + Len(sub) - 1) = sub}

Contains(str, sub) == Occurrences(str, sub) # {}

\* the exec-in-jail invocation being issued
ExecIssued == rpc = "spawn" /\ step \in ExecSteps

\* C27 as stated: the script of every exec-in-jail invocation is one line
\* with no semicolon and no && in it, written after "set -eu\n\n".
C27_NoChaining ==
    ExecIssued =>
        /\ Len(Last(trace).stdin) = 2
        /\ Last(trace).stdin[1] = "set -eu\n\n"
        /\ ~Contains(Last(trace).stdin[2], "\n")
        /\ ~Contains(Last(trace).stdin[2], ";")
        /\ ~Contains(Last(trace).stdin[2], "&&")

\* C27: the script of every exec-in-jail invocation is one line with no
\* semicolon in it, written after "set -eu\n\n"; the scripts of sudo-config,
\* group-create and user-create have no && in them, and the script of
\* ssh-enable is two commands joined by one &&.
C27_NoChainingButSsh ==
    ExecIssued =>
        /\ Len(Last(trace).stdin) = 2
        /\ Last(trace).stdin[1] = "set -eu\n\n"
        /\ ~Contains(Last(trace).stdin[2], "\n")
        /\ ~Contains(Last(trace).stdin[2], ";")
        /\ step # "ssh" => ~Contains(Last(trace).stdin[2], "&&")
        /\ step = "ssh" => Cardinality(Occurrences(Last(trace).stdin[2], "&&")) = 1

\* the ssh-enable invocation is being issued after the four steps before it
C27_Witness ==
    /\ ExecIssued /\ step = "ssh"
    /\ Len(trace) = 5
    /\ Contains(Last(trace).stdin[2], "service sshd start")

UserWithoutGroup == user # NoneRec /\ user.gid \notin DOMAIN GroupDb

\* C29: the group of the user is looked up only after the create step has
\* succeeded; for a user whose primary gid has no group provision returns
\* NoGid with that gid after the one invocation of create, which succeeded,
\* and no exec-in-jail step is ever invoked.
C29_NoGidAfterCreate ==
    /\ pc = "find_group" =>
          /\ TraceSteps = <<"create">>
          /\ Len(done) = 1 /\ done[1].verdict = RunOk(Exited(0))
    /\ result.kind = "NoGid" =>
          /\ UserWithoutGroup /\ result.gid = user.gid
          /\ pc = "exit"
          /\ TraceSteps = <<"create">>
          /\ Len(done) = 1 /\ done[1].result = OkUnit
    /\ UserWithoutGroup =>
          /\ \A i \in DOMAIN trace : trace[i].step = "create"
          /\ pc \notin {"sudo", "group", "user", "ssh", "finish"}
          /\ pc = "exit" => result.kind \in {"NoGid", "IocageCreate",
                                              "CreatePkglistJson"}

\* user ops, whose gid 1002 has no group, with ssh requested: NoGid after
\* the create step
C29_Witness ==
    /\ args.user = "ops" /\ args.ssh
    /\ pc = "exit" /\ result = [kind |-> "NoGid", gid |-> 1002]
    /\ TraceSteps = <<"create">>
    /\ done[1].result = OkUnit

(***************************************************************************)
(* C30                                                                     *)
(***************************************************************************)
\* C30: when the package-list file cannot be created or written, provision
\* returns CreatePkglistJson before any process is started: no invocation
\* has been issued, no child exists, and no temporary file is left.
C30_PkglistFailure ==
    result.kind = "CreatePkglistJson" =>
        /\ pc = "exit"
        /\ trace = <<>> /\ done = <<>>
        /\ rpc = "idle" /\ live = 0 /\ child.state = "none"
        /\ tmpfs = {} /\ json = None

\* root asked for jail ferris with user jdoe and ssh, and the package list
\* could not be written
C30_Witness ==
    /\ euid = 0 /\ args.user = "jdoe" /\ args.ssh
    /\ user # NoneRec
    /\ pc = "exit" /\ result.kind = "CreatePkglistJson"
    /\ tmpfs = {}

(***************************************************************************)
(* C31                                                                     *)
(***************************************************************************)
\* the runner call has returned after child.wait() had returned
ReturnedAfterWait == rpc = "ret" /\ status # NoResult

\* C31: of a call that returns after child.wait(), the verdict is the
\* stdout thread error when the stdout thread aborted, whatever the stderr
\* thread, the wait and the exit status gave; else the stderr thread error
\* when the stderr thread aborted, whatever the wait and the exit status
\* gave; and the result of the wait (the exit status or the wait error)
\* only when both threads ended without aborting and both were joined.
C31_VerdictPrecedence ==
    ReturnedAfterWait =>
        /\ outT = "panicked" => verdict = RunErr(CmdThread("stdout"))
        /\ outT # "panicked" /\ errT = "panicked"
              => verdict = RunErr(CmdThread("stderr"))
        /\ outT # "panicked" /\ errT # "panicked" => verdict = status
        /\ verdict = status
              => /\ outT = "finished" /\ errT = "finished"
                 /\ joined = {"stdout", "stderr"}

\* the wait failed and the stderr thread aborted: the call returns the
\* stderr thread error, not the wait error
C31_Witness ==
    /\ rpc = "ret"
    /\ status = RunErr(CmdChildWait)
    /\ outT = "finished" /\ errT = "panicked"
    /\ verdict = RunErr(CmdThread("stderr"))

(***************************************************************************)
(* C32                                                                     *)
(***************************************************************************)
\* C32: the parent joins a thread only after child.wait() has returned, so
\* whenever the runner call returns a thread error or an exit status, the
\* child of the call has exited and has been waited for, and no child is
\* running.
C32_ChildReapedBeforeJoin ==
    /\ rpc \in {"join_stdout", "join_stderr"} \/ joined # {}
          => status # NoResult /\ child.state = "reaped"
    /\ rpc = "ret" /\ verdict.kind = "Err" /\ verdict.err.kind = "Thread"
          => status # NoResult /\ child.state = "reaped" /\ live = 0
    /\ rpc = "ret" /\ verdict.kind = "Ok"
          => status = verdict /\ child.state = "reaped" /\ live = 0

\* the stdout thread aborted while the child ran; the child was killed by a
\* signal and waited for before the call returned the thread error
C32_Witness ==
    /\ rpc = "ret"
    /\ verdict = RunErr(CmdThread("stdout"))
    /\ status = RunOk(Signaled)
    /\ child.state = "reaped" /\ live = 0

====
